---- MODULE Spec2Model ----
(***************************************************************************)
(* The rng-web service: a random integer is requested from random.org     *)
(* (JSON-RPC), the signed proof is kept for six hours in an in-memory map  *)
(* and can be looked up again through a verification link.                 *)
(*                                                                         *)
(* The repository holds four iterations of the same express application:  *)
(*   "plain"   part_001, lines   1-131: generateIntegers, no proof store   *)
(*   "api"     part_001, lines 133-388: signed, GET /api/verify/:id        *)
(*   "qr"      part_000               : signed, proof page with a QR code  *)
(*   "server"  apps/rng-web/server.js : signed, proof page, result page    *)
(* One behaviour of the model is one process running one of them.          *)
(***************************************************************************)
EXTENDS Integers, Sequences, FiniteSets, Bags, TLC

VARIABLES
    variant,      \* which of the four applications this process runs
    PASSPHRASE_SHA256,  \* const PASSPHRASE_SHA256: the configured digest, normalised
    now,          \* Date.now()
    signedStore,  \* const signedStore = new Map(): id -> {random, signature, storedAt}
    sessions,     \* const sessions = new Map(): sid -> createdAt (part_000, server.js)
    sidsIssued,   \* history: the sids POST /login has handed out
    issued,       \* history: each id storeSignedResult has returned, with the
                  \* random block and signature the provider had sent for it
                  \* and the Date.now() of the insert
    inflight,     \* the requests suspended at an await, a bag: what each has in hand
    last          \* the response the latest step has sent (kind "none": it sent none)

vars == <<variant, PASSPHRASE_SHA256, now, signedStore, sessions, sidsIssued, issued, inflight, last>>

(***************************************************************************)
(* Bound of the model.                                                     *)
(***************************************************************************)
\* requests suspended at an await at the same time
MaxInflight == 2

Variants == {"plain", "api", "qr", "server"}
Signed == {"api", "qr", "server"}

\* the variants behind the passphrase gate (app.use(requireAuth))
Gated == {"qr", "server"}

SIGNED_TTL_MS == 6 * 60 * 60 * 1000

SESSION_TTL_MS == 24 * 60 * 60 * 1000

(***************************************************************************)
(* Number(x) on a query parameter.  A parameter is absent (undefined) or a *)
(* string, here a sequence of one-character strings over the alphabet      *)
(* digits, ".", "-", "+", " " and letters that start no numeric literal.   *)
(* A number is NaN or the decimal m / 10^f.                                *)
(***************************************************************************)
DigitChars == <<"0", "1", "2", "3", "4", "5", "6", "7", "8", "9">>

IsDigit(c) == \E i \in 1..10 : DigitChars[i] = c

DigitVal(c) == (CHOOSE i \in 1..10 : DigitChars[i] = c) - 1

NaN == [nan |-> TRUE, m |-> 0, f |-> 0]

Num(m, f) == [nan |-> FALSE, m |-> m, f |-> f]

RECURSIVE Pow10(_)
Pow10(k) == IF k = 0 THEN 1 ELSE 10 * Pow10(k - 1)

RECURSIVE TrimLeft(_)
TrimLeft(s) == IF s # <<>> /\ Head(s) = " " THEN TrimLeft(Tail(s)) ELSE s

RECURSIVE TrimRight(_)
TrimRight(s) ==
    IF s # <<>> /\ s[Len(s)] = " " THEN TrimRight(SubSeq(s, 1, Len(s) - 1)) ELSE s

\* the value of a sequence of digits read as a decimal integer
RECURSIVE DigitsValue(_)
DigitsValue(s) ==
    IF s = <<>> THEN 0 ELSE 10 * DigitsValue(SubSeq(s, 1, Len(s) - 1)) + DigitVal(s[Len(s)])

AllDigits(s) == \A i \in 1..Len(s) : IsDigit(s[i])

\* StrUnsignedDecimalLiteral without exponent: digits, digits. , digits.digits , .digits
UnsignedDecimal(s) ==
    LET dots == {i \in 1..Len(s) : s[i] = "."}
    IN  IF dots = {}
        THEN IF s # <<>> /\ AllDigits(s) THEN Num(DigitsValue(s), 0) ELSE NaN
        ELSE LET d == CHOOSE i \in dots : \A k \in dots : i <= k
                 ip == SubSeq(s, 1, d - 1)
                 fp == SubSeq(s, d + 1, Len(s))
             IN  IF AllDigits(ip) /\ AllDigits(fp) /\ Len(ip) + Len(fp) >= 1
                 THEN Num(DigitsValue(ip \o fp), Len(fp))
                 ELSE NaN

\* StringToNumber: white space is trimmed, the empty string is 0
StringToNumber(s) ==
    LET t == TrimRight(TrimLeft(s))
    IN  IF t = <<>> THEN Num(0, 0)
        ELSE IF Head(t) = "-"
        THEN LET u == UnsignedDecimal(Tail(t))
             IN  IF u.nan THEN NaN ELSE Num(0 - u.m, u.f)
        ELSE IF Head(t) = "+" THEN UnsignedDecimal(Tail(t))
        ELSE UnsignedDecimal(t)

\* a query parameter: req.query.min is undefined or a string
Absent == [present |-> FALSE, s |-> <<>>]

Str(s) == [present |-> TRUE, s |-> s]

\* Number(req.query.x): Number(undefined) is NaN
ToNumber(q) == IF q.present THEN StringToNumber(q.s) ELSE NaN

NumberIsFinite(x) == ~x.nan

NumberIsInteger(x) == ~x.nan /\ x.m % Pow10(x.f) = 0

\* x < y on numbers: false when either is NaN
NumberLess(x, y) == ~x.nan /\ ~y.nan /\ x.m * Pow10(y.f) < y.m * Pow10(x.f)

\* the integer a number is, for a number that is one
IntOf(x) == x.m \div Pow10(x.f)


(***************************************************************************)
(* Validation of min and max at the head of GET /api/rng.  The result is   *)
(* the error text of the 400 response, or "" when the request passes.      *)
(***************************************************************************)
\* server.js: one test, one message
ValidateServer(min, max) ==
    IF ~NumberIsInteger(min) \/ ~NumberIsInteger(max) \/ NumberLess(max, min)
    THEN "Invalid min/max"
    ELSE ""

\* part_000 and part_001: three tests, three messages
ValidateSteps(min, max) ==
    IF ~NumberIsFinite(min) \/ ~NumberIsFinite(max) THEN "min and max must be numbers"
    ELSE IF ~NumberIsInteger(min) \/ ~NumberIsInteger(max) THEN "min and max must be integers"
    ELSE IF NumberLess(max, min) THEN "max must be >= min"
    ELSE ""

\* a validation that forgets the order of min and max
ValidateNoOrder(v, min, max) ==
    IF ~NumberIsInteger(min) \/ ~NumberIsInteger(max) THEN "Invalid min/max" ELSE ""

Validate(v, min, max) ==
    IF v = "server" THEN ValidateServer(min, max) ELSE ValidateSteps(min, max)

(***************************************************************************)
(* What the provider can answer: fetch() rejects, or there is an HTTP      *)
(* response with status r.ok and a body j that is null (not JSON), an      *)
(* error object or a result object.                                        *)
(***************************************************************************)
\* an element of result.random.data
IntItem(n) == [t |-> "int", v |-> n]

FracItem == [t |-> "frac", v |-> 0]

NoRandom == [present |-> FALSE, data |-> <<>>]

Block(d) == [present |-> TRUE, data |-> d]

NoSig == [t |-> "absent", v |-> ""]

NumSig == [t |-> "number", v |-> ""]

StrSig(s) == [t |-> "string", v |-> s]

NoResult == [present |-> FALSE, random |-> NoRandom, signature |-> NoSig, authenticity |-> "absent"]

GenResult(random, signature) ==
    [present |-> TRUE, random |-> random, signature |-> signature, authenticity |-> "absent"]

\* authenticity: "absent", the booleans "true" and "false", or a value that is
\* no boolean and is truthy ("truthy": a non-empty string) or falsy ("falsy": null)
VerifyResult(a) ==
    [present |-> TRUE, random |-> NoRandom, signature |-> NoSig, authenticity |-> a]

NoBody == [present |-> FALSE, error |-> FALSE, result |-> NoResult]

ErrorBody == [present |-> TRUE, error |-> TRUE, result |-> NoResult]

ResultBody(r) == [present |-> TRUE, error |-> FALSE, result |-> r]

Threw == [threw |-> TRUE, ok |-> FALSE, j |-> NoBody]

Http(ok, j) == [threw |-> FALSE, ok |-> ok, j |-> j]

NoReply == [threw |-> FALSE, ok |-> FALSE, j |-> NoBody]

GoodReply(n, s) == Http(TRUE, ResultBody(GenResult(Block(<<IntItem(n)>>), StrSig(s))))

\* every shape of reply to generateSignedIntegers / generateIntegers
GenReplies ==
    {Threw, Http(FALSE, NoBody), Http(TRUE, NoBody), Http(TRUE, ErrorBody),
     Http(TRUE, ResultBody(NoResult)),
     Http(TRUE, ResultBody(GenResult(NoRandom, StrSig("sigA")))),
     Http(TRUE, ResultBody(GenResult(Block(<<>>), StrSig("sigA")))),
     Http(TRUE, ResultBody(GenResult(Block(<<FracItem>>), StrSig("sigA")))),
     Http(TRUE, ResultBody(GenResult(Block(<<IntItem(1)>>), NoSig))),
     Http(TRUE, ResultBody(GenResult(Block(<<IntItem(1)>>), NumSig))),
     Http(FALSE, ResultBody(GenResult(Block(<<IntItem(1)>>), StrSig("sigA"))))}
    \cup {GoodReply(0, "sigA"), GoodReply(1, "sigA"), GoodReply(2, "sigB"), GoodReply(3, "sigB")}

\* a provider that is up: two proofs, a transport failure, a reply without signature
FewGenReplies ==
    {GoodReply(1, "sigA"), GoodReply(2, "sigB"), Threw,
     Http(TRUE, ResultBody(GenResult(Block(<<IntItem(1)>>), NoSig)))}

\* every shape of reply to verifySignature
VerifyReplies ==
    {Threw, Http(FALSE, NoBody), Http(FALSE, ResultBody(VerifyResult("true"))),
     Http(TRUE, NoBody), Http(TRUE, ErrorBody), Http(TRUE, ResultBody(NoResult))}
    \cup {Http(TRUE, ResultBody(VerifyResult(a))) :
            a \in {"absent", "true", "false", "truthy", "falsy"}}

FewVerifyReplies ==
    {Threw, Http(TRUE, ResultBody(VerifyResult("true"))),
     Http(TRUE, ResultBody(VerifyResult("false")))}

\* j?.result?.random
ReplyRandom(reply) == reply.j.result.random

\* j?.result?.signature
ReplySignature(reply) == reply.j.result.signature

\* Number.isInteger(j?.result?.random?.data?.[0])
FirstIsInteger(random) == Len(random.data) >= 1 /\ random.data[1].t = "int"

\* a coercion that takes every value that is there for true
ToBooleanPresent(a) == a # "absent"

\* Boolean(j?.result?.authenticity)
ToBoolean(a) == a \in {"true", "truthy"}

(***************************************************************************)
(* The proof store.                                                        *)
(***************************************************************************)
\* the ids crypto.randomUUID() draws from
Ids == {"u1", "u2"}

NoId == ""

\* a reference randomUUID never returns
NeverIssued == "u0"

AllRefs == Ids \cup {NeverIssued}

\* req.params.id: a client presents a reference a generate response has given
\* out, or a value of its own; the 122 random bits of an id that is still to
\* be issued are not guessed
Refs(given) == DOMAIN given \cup {NeverIssued}

NoEntry == [random |-> NoRandom, signature |-> NoSig, storedAt |-> 0]

\* an insert that keeps the random block and loses the signature
storeSignedResultNoSignature(store, id, random, signature, t) ==
    [i \in DOMAIN store \cup {id} |->
        IF i = id THEN [random |-> random, signature |-> NoSig, storedAt |-> t]
        ELSE store[i]]

\* an insert that restamps every entry of the map
storeSignedResultTouchAll(store, id, random, signature, t) ==
    [i \in DOMAIN store \cup {id} |->
        IF i = id THEN [random |-> random, signature |-> signature, storedAt |-> t]
        ELSE [store[i] EXCEPT !.storedAt = t]]

\* an insert that forgets the id and writes under the empty key
storeSignedResultFixedKey(store, id, random, signature, t) ==
    [i \in DOMAIN store \cup {NoId} |->
        IF i = NoId THEN [random |-> random, signature |-> signature, storedAt |-> t]
        ELSE store[i]]

\* signedStore.set(id, { ...obj, storedAt: Date.now() })
storeSignedResult(store, id, random, signature, t) ==
    [i \in DOMAIN store \cup {id} |->
        IF i = id THEN [random |-> random, signature |-> signature, storedAt |-> t]
        ELSE store[i]]

\* a lookup that never expires an entry
getSignedResultNoExpiry(store, id, t) ==
    IF id \notin DOMAIN store
    THEN [found |-> FALSE, v |-> NoEntry, store |-> store]
    ELSE [found |-> TRUE, v |-> store[id], store |-> store]

\* a lookup that answers an unknown id with an empty proof
getSignedResultDefault(store, id, t) ==
    IF id \notin DOMAIN store
    THEN [found |-> TRUE,
          v |-> [random |-> Block(<<IntItem(0)>>), signature |-> StrSig(""), storedAt |-> t],
          store |-> store]
    ELSE IF t - store[id].storedAt > SIGNED_TTL_MS
    THEN [found |-> FALSE, v |-> NoEntry,
          store |-> [i \in DOMAIN store \ {id} |-> store[i]]]
    ELSE [found |-> TRUE, v |-> store[id], store |-> store]

\* a lookup that sweeps every expired entry out of the map (as cleanupSessions does)
getSignedResultSweep(store, id, t) ==
    LET live == {i \in DOMAIN store : ~(t - store[i].storedAt > SIGNED_TTL_MS)}
        kept == [i \in live |-> store[i]]
    IN  IF id \in live
        THEN [found |-> TRUE, v |-> store[id], store |-> kept]
        ELSE [found |-> FALSE, v |-> NoEntry, store |-> kept]

\* a lookup that answers null for an expired entry and leaves it in the map
getSignedResultKeepExpired(store, id, t) ==
    IF id \in DOMAIN store /\ ~(t - store[id].storedAt > SIGNED_TTL_MS)
    THEN [found |-> TRUE, v |-> store[id], store |-> store]
    ELSE [found |-> FALSE, v |-> NoEntry, store |-> store]

\* a lookup that expires an entry when its age reaches the TTL
getSignedResultStrict(store, id, t) ==
    IF id \notin DOMAIN store
    THEN [found |-> FALSE, v |-> NoEntry, store |-> store]
    ELSE IF t - store[id].storedAt >= SIGNED_TTL_MS
    THEN [found |-> FALSE, v |-> NoEntry,
          store |-> [i \in DOMAIN store \ {id} |-> store[i]]]
    ELSE [found |-> TRUE, v |-> store[id], store |-> store]

\* a lookup that restamps the entry it finds
getSignedResultTouch(store, id, t) ==
    IF id \notin DOMAIN store
    THEN [found |-> FALSE, v |-> NoEntry, store |-> store]
    ELSE IF t - store[id].storedAt > SIGNED_TTL_MS
    THEN [found |-> FALSE, v |-> NoEntry,
          store |-> [i \in DOMAIN store \ {id} |-> store[i]]]
    ELSE [found |-> TRUE, v |-> store[id],
          store |-> [store EXCEPT ![id].storedAt = t]]

\* getSignedResult(id): the entry or null, and the map after the call
getSignedResult(store, id, t) ==
    IF id \notin DOMAIN store
    THEN [found |-> FALSE, v |-> NoEntry, store |-> store]
    ELSE IF t - store[id].storedAt > SIGNED_TTL_MS
    THEN [found |-> FALSE, v |-> NoEntry,
          store |-> [i \in DOMAIN store \ {id} |-> store[i]]]
    ELSE [found |-> TRUE, v |-> store[id], store |-> store]


(***************************************************************************)
(* The passphrase gate of part_000 and server.js.  A request carries the   *)
(* value of its rng_sid cookie, NoCookie when it has none.                 *)
(***************************************************************************)
\* the sids crypto.randomUUID() draws from, and a client presents
Sids == {"s1", "s2"}

NoCookie == ""


(***************************************************************************)
(* The configured digest: process.env.PASSPHRASE_SHA256, trimmed and       *)
(* lower-cased when the process starts.  A text is a sequence of           *)
(* characters.                                                             *)
(***************************************************************************)
Unset == [set |-> FALSE, text |-> <<>>]

Env(text) == [set |-> TRUE, text |-> text]

RECURSIVE TrimStart(_)
TrimStart(t) == IF t # <<>> /\ Head(t) = " " THEN TrimStart(Tail(t)) ELSE t

RECURSIVE TrimEnd(_)
TrimEnd(t) ==
    IF t # <<>> /\ t[Len(t)] = " " THEN TrimEnd(SubSeq(t, 1, Len(t) - 1)) ELSE t

Trim(t) == TrimEnd(TrimStart(t))

UpperChars == <<"A", "B", "C", "D", "E", "F", "G">>

LowerChars == <<"a", "b", "c", "d", "e", "f", "g">>

LowerChar(c) ==
    IF \E i \in 1..7 : UpperChars[i] = c
    THEN LowerChars[CHOOSE i \in 1..7 : UpperChars[i] = c]
    ELSE c

ToLowerCase(t) == [i \in 1..Len(t) |-> LowerChar(t[i])]

\* (process.env.PASSPHRASE_SHA256 || '').trim().toLowerCase()
PassphraseSha256(env) == ToLowerCase(Trim(IF env.set THEN env.text ELSE <<>>))

\* [0-9a-f]
IsLowerHex(c) == IsDigit(c) \/ \E i \in 1..6 : LowerChars[i] = c

\* a test that only asks for a configured value
MisconfiguredEmptyOnly(cfg) == cfg = <<>>

\* !PASSPHRASE_SHA256 || !/^[0-9a-f]{64}$/.test(PASSPHRASE_SHA256)
Misconfigured(cfg) ==
    \/ cfg = <<>>
    \/ ~(Len(cfg) = 64 /\ \A i \in 1..64 : IsLowerHex(cfg[i]))

\* the passphrases of the model, and the two hex digits their digest is made of
Passphrases == {"", "open", "guess"}

DigestChars(p) ==
    IF p = "open" THEN <<"a", "1">>
    ELSE IF p = "guess" THEN <<"b", "2">>
    ELSE <<"e", "3">>

\* crypto.createHash('sha256').update(passphrase, 'utf8').digest('hex'): 64
\* hex digits, different for different passphrases
Sha256Hex(p) == [i \in 1..64 |-> DigestChars(p)[2 - (i % 2)]]

\* the form a login posts: String(req.body?.passphrase || '')
NoForm == [present |-> FALSE, passphrase |-> ""]

Form(p) == [present |-> TRUE, passphrase |-> p]

PassphraseOf(form) == IF form.present THEN form.passphrase ELSE ""

\* crypto.timingSafeEqual(Buffer.from(digest, 'hex'), Buffer.from(PASSPHRASE_SHA256, 'hex'))
PassphraseOk(cfg, passphrase) == Sha256Hex(passphrase) = cfg

\* the values of the environment: not set, empty, the digest of "open", the
\* same in upper case between blanks, 63 digits of it, and 64 characters of
\* which the last is no hex digit
Envs ==
    {Unset, Env(<<>>), Env(Sha256Hex("open")),
     Env(<<" ">> \o [i \in 1..64 |-> <<"A", "1">>[2 - (i % 2)]] \o <<" ">>),
     Env(SubSeq(Sha256Hex("open"), 1, 63)),
     Env([Sha256Hex("open") EXCEPT ![64] = "g"])}

\* a cleanup that deletes nothing
cleanupSessionsNone(sess, t) == sess

\* cleanupSessions(): every session older than the TTL is deleted
cleanupSessions(sess, t) ==
    [k \in {k \in DOMAIN sess : ~(t - sess[k] > SESSION_TTL_MS)} |-> sess[k]]

\* a gate that lets every request with a cookie through
isAuthedAnyCookie(sess, cookie, t) ==
    [ok |-> cookie # NoCookie, sessions |-> cleanupSessions(sess, t)]

\* isAuthed(req): the answer, and the map after the call
isAuthed(sess, cookie, t) ==
    LET cleaned == cleanupSessions(sess, t)
    IN  IF cookie = NoCookie THEN [ok |-> FALSE, sessions |-> cleaned]
        ELSE IF cookie \notin DOMAIN cleaned THEN [ok |-> FALSE, sessions |-> cleaned]
        ELSE IF t - cleaned[cookie] > SESSION_TTL_MS
        THEN [ok |-> FALSE,
              sessions |-> [k \in DOMAIN cleaned \ {cookie} |-> cleaned[k]]]
        ELSE [ok |-> TRUE, sessions |-> cleaned]

\* requireAuth on the paths /api/rng, /verify/:id and /result/:id; part_001
\* has no gate
requireAuth(v, sess, cookie, t) ==
    IF v \in Gated THEN isAuthed(sess, cookie, t) ELSE [ok |-> TRUE, sessions |-> sess]

\* the map when the handler of /login or /logout starts: no isAuthed call has
\* touched it. server.js's requireAuth looks at the path first; part_000
\* registers both routes before app.use(requireAuth), so the gate never sees
\* these requests
ExemptPath(v, sess, t) == sess

(***************************************************************************)
(* What the handlers make of a provider reply.                             *)
(***************************************************************************)
Outcome(status, error) == [status |-> status, error |-> error]

\* a payload test that forgets the signature
SignedPayloadOkNoSignature(reply) ==
    FirstIsInteger(ReplyRandom(reply)) /\ ReplyRandom(reply).present

\* the payload test of the signed variants
SignedPayloadOk(reply) ==
    /\ FirstIsInteger(ReplyRandom(reply))
    /\ ReplyRandom(reply).present
    /\ ReplySignature(reply).t = "string"

\* the payload test of the generateIntegers variant
PlainPayloadOk(reply) == FirstIsInteger(ReplyRandom(reply))

\* server.js, GET /api/rng after the fetch
GenerateOutcomeServer(reply) ==
    IF reply.threw THEN Outcome(502, "random.org call failed")
    ELSE IF ~reply.ok \/ ~reply.j.present \/ reply.j.error THEN Outcome(502, "random.org error")
    ELSE IF ~SignedPayloadOk(reply) THEN Outcome(502, "Unexpected random.org payload")
    ELSE Outcome(200, "")

\* part_000 and part_001, GET /api/rng after the fetch
GenerateOutcomeSteps(reply, payloadOk) ==
    IF reply.threw THEN Outcome(502, "random.org call failed")
    ELSE IF ~reply.ok THEN Outcome(502, "random.org request failed")
    ELSE IF ~reply.j.present \/ reply.j.error THEN Outcome(502, "random.org error")
    ELSE IF ~payloadOk THEN Outcome(502, "random.org returned unexpected payload")
    ELSE Outcome(200, "")

\* a handler whose catch block answers a rejected call as a bad request
GenerateOutcomeCatch400(v, reply) ==
    IF reply.threw THEN Outcome(400, "random.org call failed")
    ELSE IF v = "server" THEN GenerateOutcomeServer(reply)
    ELSE IF v = "plain" THEN GenerateOutcomeSteps(reply, PlainPayloadOk(reply))
    ELSE GenerateOutcomeSteps(reply, SignedPayloadOk(reply))

GenerateOutcome(v, reply) ==
    IF v = "server" THEN GenerateOutcomeServer(reply)
    ELSE IF v = "plain" THEN GenerateOutcomeSteps(reply, PlainPayloadOk(reply))
    ELSE GenerateOutcomeSteps(reply, SignedPayloadOk(reply))

\* a handler that reports a failed call as an unknown reference
VerifyOutcomeFailureAs404(reply) ==
    IF reply.threw THEN Outcome(404, "unknown_or_expired")
    ELSE IF ~reply.ok THEN Outcome(404, "unknown_or_expired")
    ELSE IF ~reply.j.present \/ reply.j.error THEN Outcome(404, "unknown_or_expired")
    ELSE Outcome(200, "")

\* part_001, GET /api/verify/:id after the fetch
VerifyOutcome(reply) ==
    IF reply.threw THEN Outcome(502, "verifySignature call failed")
    ELSE IF ~reply.ok THEN Outcome(502, "random.org verify failed")
    ELSE IF ~reply.j.present \/ reply.j.error THEN Outcome(502, "random.org verify error")
    ELSE Outcome(200, "")

\* a handler that answers "authentic" without reading the reply
VerifyAuthenticityAlways(reply) == TRUE

\* the authenticity field of the 200 response of GET /api/verify/:id
VerifyAuthenticity(reply) == ToBoolean(reply.j.result.authenticity)

(***************************************************************************)
(* Requests and responses.                                                 *)
(***************************************************************************)
Query(min, max) == [min |-> min, max |-> max]

\* every pair of query strings over a pool of six
RawPool ==
    {Absent, Str(<<>>), Str(<<"a">>), Str(<<"1", ".", "5">>), Str(<<"1">>), Str(<<"2">>)}

Queries == {Query(a, b) : a \in RawPool, b \in RawPool}

\* a client that sends two good ranges, a reversed one and a non-numeric one
FewQueries ==
    {Query(Str(<<"1">>), Str(<<"1">>)), Query(Str(<<"1">>), Str(<<"2">>)),
     Query(Str(<<"2">>), Str(<<"1">>)), Query(Str(<<"a">>), Str(<<"1">>))}

\* payload.method and payload.params of the generate call (the apiKey apart)
NoParams ==
    [method |-> "", n |-> 0, min |-> 0, max |-> 0, replacement |-> FALSE, base |-> 0]

\* a payload that carries the bounds in the wrong places
GenerateParamsSwapped(v, min, max) ==
    [method |-> IF v = "plain" THEN "generateIntegers" ELSE "generateSignedIntegers",
     n |-> 1, min |-> max, max |-> min, replacement |-> TRUE, base |-> 10]

GenerateParams(v, min, max) ==
    [method |-> IF v = "plain" THEN "generateIntegers" ELSE "generateSignedIntegers",
     n |-> 1, min |-> min, max |-> max, replacement |-> TRUE, base |-> 10]

\* a request suspended at an await: pc is "gen_await", "verify_await" (the
\* provider's reply is awaited), "qr_await" (the QR code is awaited) or
\* "login_delay" (the timer of a wrong passphrase runs); calls is the number
\* of provider calls the request has issued, passphrase what a login sent
Suspended(pc) ==
    [pc |-> pc, rawMin |-> Absent, rawMax |-> Absent, min |-> 0, max |-> 0,
     id |-> NoId, random |-> NoRandom, signature |-> NoSig, calls |-> 0,
     params |-> NoParams, passphrase |-> ""]

\* a response, with what the request it answers had received and sent (a step
\* that receives a request and suspends it records the cookie of the request):
\* cookie is the rng_sid of the request, sid the rng_sid the response sets,
\* calls is the number of provider calls the request issued, reply the
\* provider's answer to it, random and signature the proof the request sent to
\* the provider (verifySignature) or rendered on the page
NoResponse ==
    [kind |-> "none", status |-> 0, error |-> "", rawMin |-> Absent, rawMax |-> Absent,
     min |-> 0, max |-> 0, value |-> 0, storeId |-> NoId, id |-> NoId,
     authenticity |-> FALSE, calls |-> 0, reply |-> NoReply,
     random |-> NoRandom, signature |-> NoSig, cookie |-> NoCookie, sid |-> NoCookie,
     passphrase |-> ""]

\* res.redirect('/login') of requireAuth
Redirect(cookie) ==
    [NoResponse EXCEPT !.kind = "redirect", !.status = 302, !.cookie = cookie]

\* the cookies a request is drawn with: part_001 reads no cookie
RequestCookies(cookies) == IF variant \in Gated THEN cookies ELSE {NoCookie}

Suspend(rec) == inflight' = inflight (+) SetToBag({rec})

Resume(rec) == inflight' = inflight (-) SetToBag({rec})

Awaiting(pc) == {rec \in BagToSet(inflight) : rec.pc = pc}

\* k requests at most are suspended at the same time
Room(k) == BagCardinality(inflight) < k

Init ==
    /\ variant \in Variants
    /\ PASSPHRASE_SHA256 \in
           IF variant \in Gated THEN {PassphraseSha256(e) : e \in Envs} ELSE {<<>>}
    /\ now = 0
    /\ signedStore = << >>
    /\ sessions = << >>
    /\ sidsIssued = {}
    /\ issued = << >>
    /\ inflight = EmptyBag
    /\ last = NoResponse

(***************************************************************************)
(* GET /api/rng                                                            *)
(***************************************************************************)
\* up to the fetch: validation, then the provider call is issued
Generate(queries, cookies, k) ==
    /\ \E q \in queries, c \in RequestCookies(cookies) :
         LET auth == requireAuth(variant, sessions, c, now)
             min == ToNumber(q.min)
             max == ToNumber(q.max)
             err == Validate(variant, min, max)
         IN  /\ sessions' = auth.sessions
             /\ IF ~auth.ok
                THEN /\ last' = Redirect(c)
                     /\ UNCHANGED inflight
                ELSE IF err # ""
                THEN /\ last' = [NoResponse EXCEPT !.kind = "generate", !.status = 400,
                                    !.error = err, !.rawMin = q.min, !.rawMax = q.max,
                                    !.cookie = c]
                     /\ UNCHANGED inflight
                ELSE /\ Room(k)
                     /\ Suspend([Suspended("gen_await") EXCEPT !.rawMin = q.min,
                                    !.rawMax = q.max, !.min = IntOf(min), !.max = IntOf(max),
                                    !.calls = 1,
                                    !.params = GenerateParams(variant, IntOf(min), IntOf(max))])
                     /\ last' = [NoResponse EXCEPT !.cookie = c]
    /\ UNCHANGED <<variant, PASSPHRASE_SHA256, now, signedStore, sidsIssued, issued>>

\* a success response that carries no reference to the stored proof
GenerateResponseNoRef(rec, reply, out, storeId) ==
    [NoResponse EXCEPT !.kind = "generate", !.status = out.status, !.error = out.error,
        !.rawMin = rec.rawMin, !.rawMax = rec.rawMax, !.min = rec.min, !.max = rec.max,
        !.value = IF out.status = 200 THEN ReplyRandom(reply).data[1].v ELSE 0,
        !.storeId = NoId, !.calls = rec.calls, !.reply = reply]

\* the response to a generate request whose provider call has been answered
GenerateResponse(rec, reply, out, storeId) ==
    [NoResponse EXCEPT !.kind = "generate", !.status = out.status, !.error = out.error,
        !.rawMin = rec.rawMin, !.rawMax = rec.rawMax, !.min = rec.min, !.max = rec.max,
        !.value = IF out.status = 200 THEN ReplyRandom(reply).data[1].v ELSE 0,
        !.storeId = storeId, !.calls = rec.calls, !.reply = reply]

\* a handler that calls the provider a second time when the first call was rejected
GenerateReplyRetry(replies) ==
    /\ \E rec \in Awaiting("gen_await"), reply \in replies :
         LET out == GenerateOutcome(variant, reply)
         IN  IF reply.threw /\ rec.calls = 1
             THEN /\ inflight' = (inflight (-) SetToBag({rec}))
                                     (+) SetToBag({[rec EXCEPT !.calls = 2]})
                  /\ last' = NoResponse
                  /\ UNCHANGED <<signedStore, issued>>
             ELSE /\ Resume(rec)
                  /\ \/ /\ out.status = 200
                        /\ variant \in Signed
                        /\ \E id \in Ids \ DOMAIN issued :
                             /\ signedStore' = storeSignedResult(signedStore, id,
                                                   ReplyRandom(reply), ReplySignature(reply), now)
                             /\ issued' = [i \in DOMAIN issued \cup {id} |->
                                             IF i = id
                                             THEN [random |-> ReplyRandom(reply),
                                                   signature |-> ReplySignature(reply),
                                                   storedAt |-> now]
                                             ELSE issued[i]]
                             /\ last' = GenerateResponse(rec, reply, out, id)
                     \/ /\ out.status # 200 \/ variant = "plain"
                        /\ last' = GenerateResponse(rec, reply, out, NoId)
                        /\ UNCHANGED <<signedStore, issued>>
    /\ UNCHANGED <<variant, PASSPHRASE_SHA256, now, sessions, sidsIssued>>

\* after the fetch: the reply is tested, the proof stored, the response sent
GenerateReply(replies) ==
    /\ \E rec \in Awaiting("gen_await"), reply \in replies :
         LET out == GenerateOutcome(variant, reply)
         IN  /\ Resume(rec)
             /\ \/ /\ out.status = 200
                   /\ variant \in Signed
                   \* crypto.randomUUID(): an id never returned before
                   /\ \E id \in Ids \ DOMAIN issued :
                        /\ signedStore' = storeSignedResult(signedStore, id,
                                              ReplyRandom(reply), ReplySignature(reply), now)
                        /\ issued' = [i \in DOMAIN issued \cup {id} |->
                                        IF i = id
                                        THEN [random |-> ReplyRandom(reply),
                                              signature |-> ReplySignature(reply),
                                              storedAt |-> now]
                                        ELSE issued[i]]
                        /\ last' = GenerateResponse(rec, reply, out, id)
                \/ /\ out.status # 200 \/ variant = "plain"
                   /\ last' = GenerateResponse(rec, reply, out, NoId)
                   /\ UNCHANGED <<signedStore, issued>>
    /\ UNCHANGED <<variant, PASSPHRASE_SHA256, now, sessions, sidsIssued>>

(***************************************************************************)
(* GET /api/verify/:id (part_001)                                          *)
(***************************************************************************)
\* up to the fetch: the lookup, then verifySignature is issued with the stored proof
VerifyApi(k) ==
    /\ variant = "api"
    /\ \E id \in Refs(issued) :
         LET g == getSignedResult(signedStore, id, now)
         IN  /\ signedStore' = g.store
             /\ IF ~g.found
                THEN /\ last' = [NoResponse EXCEPT !.kind = "verify", !.status = 404,
                                    !.error = "unknown_or_expired", !.id = id]
                     /\ UNCHANGED inflight
                ELSE /\ Room(k)
                     /\ Suspend([Suspended("verify_await") EXCEPT !.id = id,
                                    !.random = g.v.random, !.signature = g.v.signature,
                                    !.calls = 1])
                     /\ last' = NoResponse
    /\ UNCHANGED <<variant, PASSPHRASE_SHA256, now, sessions, sidsIssued, issued>>

\* after the fetch
VerifyApiReply(replies) ==
    /\ \E rec \in Awaiting("verify_await"), reply \in replies :
         LET out == VerifyOutcome(reply)
         IN  /\ Resume(rec)
             /\ last' = [NoResponse EXCEPT !.kind = "verify", !.status = out.status,
                            !.error = out.error, !.id = rec.id, !.calls = rec.calls,
                            !.reply = reply,
                            !.authenticity = (out.status = 200 /\ VerifyAuthenticity(reply)),
                            !.random = rec.random, !.signature = rec.signature]
    /\ UNCHANGED <<variant, PASSPHRASE_SHA256, now, signedStore, sessions, sidsIssued, issued>>

(***************************************************************************)
(* GET /verify/:id (part_000, server.js) and GET /result/:id (server.js)   *)
(***************************************************************************)
\* a proof page whose handler has asked the provider to verify the signature
ProofPageSelfVerified(id, random, signature) ==
    [NoResponse EXCEPT !.kind = "verify_page", !.status = 200, !.id = id,
        !.random = random, !.signature = signature, !.calls = 1]

\* the proof page: the stored random block and signature, for manual verification
ProofPage(id, random, signature) ==
    [NoResponse EXCEPT !.kind = "verify_page", !.status = 200, !.id = id,
        !.random = random, !.signature = signature]

VerifyPage(cookies, k) ==
    /\ variant \in {"qr", "server"}
    /\ \E id \in Refs(issued), c \in RequestCookies(cookies) :
         LET auth == requireAuth(variant, sessions, c, now)
             g == getSignedResult(signedStore, id, now)
         IN  /\ sessions' = auth.sessions
             /\ IF ~auth.ok
                THEN /\ last' = Redirect(c)
                     /\ UNCHANGED <<signedStore, inflight>>
                ELSE IF ~g.found
                THEN /\ signedStore' = g.store
                     /\ last' = [NoResponse EXCEPT !.kind = "verify_page", !.status = 404,
                                    !.id = id, !.cookie = c]
                     /\ UNCHANGED inflight
                ELSE IF variant = "server"
                THEN /\ signedStore' = g.store
                     /\ last' = [ProofPage(id, g.v.random, g.v.signature) EXCEPT !.cookie = c]
                     /\ UNCHANGED inflight
                \* part_000: await QRCode.toDataURL(verifyPageUrl)
                ELSE /\ Room(k)
                     /\ signedStore' = g.store
                     /\ Suspend([Suspended("qr_await") EXCEPT !.id = id,
                                    !.random = g.v.random, !.signature = g.v.signature])
                     /\ last' = [NoResponse EXCEPT !.cookie = c]
    /\ UNCHANGED <<variant, PASSPHRASE_SHA256, now, sidsIssued, issued>>

\* part_000: the QR code is there, the page is rendered from the entry read before
VerifyPageQr ==
    /\ \E rec \in Awaiting("qr_await") :
         /\ Resume(rec)
         /\ last' = ProofPage(rec.id, rec.random, rec.signature)
    /\ UNCHANGED <<variant, PASSPHRASE_SHA256, now, signedStore, sessions, sidsIssued, issued>>

ResultPage(cookies) ==
    /\ variant = "server"
    /\ \E id \in Refs(issued), c \in RequestCookies(cookies) :
         LET auth == requireAuth(variant, sessions, c, now)
             g == getSignedResult(signedStore, id, now)
         IN  /\ sessions' = auth.sessions
             /\ IF ~auth.ok
                THEN /\ last' = Redirect(c)
                     /\ UNCHANGED signedStore
                ELSE /\ signedStore' = g.store
                     /\ last' = IF ~g.found
                                THEN [NoResponse EXCEPT !.kind = "result_page",
                                         !.status = 404, !.id = id, !.cookie = c]
                                ELSE [NoResponse EXCEPT !.kind = "result_page",
                                         !.status = 200, !.id = id, !.cookie = c,
                                         !.value = g.v.random.data[1].v]
    /\ UNCHANGED <<variant, PASSPHRASE_SHA256, now, sidsIssued, issued, inflight>>

(***************************************************************************)
(* POST /login and GET /logout.  Neither passes isAuthed (ExemptPath).     *)
(* loginLimiter stands before the login handler: it counts the posts of a  *)
(* client address in a window of 15 minutes and answers 429 itself beyond  *)
(* 30 of them; the count is kept by express-rate-limit, and the model      *)
(* takes its decision as an input (limited).  A wrong passphrase starts a  *)
(* timer (350 ms in server.js, 450 ms in part_000) and the request waits   *)
(* at "login_delay" until LoginDelay, the timer's callback, redirects it.  *)
(***************************************************************************)
Login(sids, forms, limits, k) ==
    /\ variant \in Gated
    /\ \E form \in forms, limited \in limits :
         LET base == ExemptPath(variant, sessions, now)
             passphrase == PassphraseOf(form)
             answer == [NoResponse EXCEPT !.kind = "login", !.passphrase = passphrase]
         IN  IF limited
             THEN /\ last' = [answer EXCEPT !.status = 429, !.error = "Too many requests"]
                  /\ sessions' = base
                  /\ UNCHANGED <<sidsIssued, inflight>>
             ELSE IF Misconfigured(PASSPHRASE_SHA256)
             THEN /\ last' = [answer EXCEPT !.status = 500, !.error = "Server misconfigured"]
                  /\ sessions' = base
                  /\ UNCHANGED <<sidsIssued, inflight>>
             ELSE IF ~PassphraseOk(PASSPHRASE_SHA256, passphrase)
             THEN /\ Room(k)
                  /\ Suspend([Suspended("login_delay") EXCEPT !.passphrase = passphrase])
                  /\ last' = [NoResponse EXCEPT !.passphrase = passphrase]
                  /\ sessions' = base
                  /\ UNCHANGED sidsIssued
             \* crypto.randomUUID(): a sid never returned before
             ELSE \E sid \in sids \ sidsIssued :
                  /\ sessions' = [c \in DOMAIN base \cup {sid} |->
                                     IF c = sid THEN now ELSE base[c]]
                  /\ sidsIssued' = sidsIssued \cup {sid}
                  /\ last' = [answer EXCEPT !.status = 302, !.sid = sid]
                  /\ UNCHANGED inflight
    /\ UNCHANGED <<variant, PASSPHRASE_SHA256, now, signedStore, issued>>

\* setTimeout's callback: res.redirect('/login?err=Wrong%20passphrase')
LoginDelay(passphrases) ==
    /\ \E rec \in Awaiting("login_delay") :
         /\ rec.passphrase \in passphrases
         /\ Resume(rec)
         /\ last' = [NoResponse EXCEPT !.kind = "login", !.status = 302,
                        !.error = "Wrong passphrase", !.passphrase = rec.passphrase]
    /\ UNCHANGED <<variant, PASSPHRASE_SHA256, now, signedStore, sessions, sidsIssued, issued>>

\* a logout that clears the cookie and leaves the session in the map
LogoutCookieOnly(cookies) ==
    /\ variant \in Gated
    /\ \E c \in cookies :
         /\ sessions' = ExemptPath(variant, sessions, now)
         /\ last' = [NoResponse EXCEPT !.kind = "logout", !.status = 302, !.cookie = c]
    /\ UNCHANGED <<variant, PASSPHRASE_SHA256, now, signedStore, sidsIssued, issued, inflight>>

Logout(cookies) ==
    /\ variant \in Gated
    /\ \E c \in cookies :
         LET base == ExemptPath(variant, sessions, now)
         IN  /\ sessions' = [k \in DOMAIN base \ {c} |-> base[k]]
             /\ last' = [NoResponse EXCEPT !.kind = "logout", !.status = 302, !.cookie = c]
    /\ UNCHANGED <<variant, PASSPHRASE_SHA256, now, signedStore, sidsIssued, issued, inflight>>

(***************************************************************************)
(* A provider that never answers: fetch() is called without a signal or a  *)
(* timeout, so the promise of such a call never settles and the handler    *)
(* stays at its await.                                                     *)
(***************************************************************************)
Hung(pc) == IF pc = "gen_await" THEN "gen_hung" ELSE "verify_hung"

ProviderSilent ==
    /\ \E rec \in Awaiting("gen_await") \cup Awaiting("verify_await") :
         inflight' = (inflight (-) SetToBag({rec}))
                         (+) SetToBag({[rec EXCEPT !.pc = Hung(rec.pc)]})
    /\ last' = NoResponse
    /\ UNCHANGED <<variant, PASSPHRASE_SHA256, now, signedStore, sessions, sidsIssued, issued>>

(***************************************************************************)
(* The wall clock: Date.now() moves on, and can be set back.  The model    *)
(* looks at the process at its start, six hours later and 1 ms after that. *)
(***************************************************************************)
ClockValues == {0, SIGNED_TTL_MS, SIGNED_TTL_MS + 1}

\* the start, a session's 24 hours later and 1 ms after that
SessionClockValues == {0, SESSION_TTL_MS, SESSION_TTL_MS + 1}

Tick(values) ==
    /\ now' \in values
    /\ now' > now
    /\ last' = NoResponse
    /\ UNCHANGED <<variant, PASSPHRASE_SHA256, signedStore, sessions, sidsIssued, issued, inflight>>

ClockSetBack(values) ==
    /\ now' \in values
    /\ now' < now
    /\ last' = NoResponse
    /\ UNCHANGED <<variant, PASSPHRASE_SHA256, signedStore, sessions, sidsIssued, issued, inflight>>

(***************************************************************************)
(* Spec: requests overlap (MaxInflight of them), the clock moves, the      *)
(* client and the provider stay within a few typical messages; behind the  *)
(* gate, one client logs in once, before the clock has moved, and sends its *)
(* cookie with every request (SpecAuth has the sessions that run out).     *)
(* SpecWide: one request at a time and a clock that stands still, every    *)
(* query of Queries and every shape of provider reply.                     *)
(***************************************************************************)
\* one client, one session
FewSids == {"s1"}

FewCookies == {"s1"}

\* no cookie, a sid of this process (live or not), each sid before it is issued
Cookies == {NoCookie} \cup Sids

\* the client of Spec logs in when the process has started
\* the form of a client that knows the passphrase
GoodForms == {Form("open")}

LoginAtStart == now = 0 /\ Login(FewSids, GoodForms, {FALSE}, MaxInflight)

Next ==
    \/ Generate(FewQueries, FewCookies, MaxInflight)
    \/ GenerateReply(FewGenReplies)
    \/ VerifyApi(MaxInflight)
    \/ VerifyApiReply(FewVerifyReplies)
    \/ VerifyPage(FewCookies, MaxInflight)
    \/ VerifyPageQr
    \/ ResultPage(FewCookies)
    \/ LoginAtStart
    \/ Tick(ClockValues)
    \/ ClockSetBack(ClockValues)

Spec == Init /\ [][Next]_vars

NextWide ==
    \/ Generate(Queries, FewCookies, 1)
    \/ GenerateReply(GenReplies)
    \/ VerifyApi(1)
    \/ VerifyApiReply(VerifyReplies)
    \/ VerifyPage(FewCookies, 1)
    \/ VerifyPageQr
    \/ ResultPage(FewCookies)
    \/ Login(FewSids, GoodForms, {FALSE}, MaxInflight)

SpecWide == Init /\ [][NextWide]_vars

(***************************************************************************)
(* SpecLive: as Spec with a clock that stands still and a provider that    *)
(* may leave a call unanswered.  A promise that settles is delivered: the  *)
(* event loop runs the continuation of every await whose reply is there.   *)
(***************************************************************************)
NextLive ==
    \/ Generate(FewQueries, FewCookies, MaxInflight)
    \/ GenerateReply(FewGenReplies)
    \/ VerifyApi(MaxInflight)
    \/ VerifyApiReply(FewVerifyReplies)
    \/ VerifyPage(FewCookies, MaxInflight)
    \/ VerifyPageQr
    \/ ResultPage(FewCookies)
    \/ Login(FewSids, GoodForms, {FALSE}, MaxInflight)
    \/ ProviderSilent

SpecLive ==
    /\ Init
    /\ [][NextLive]_vars
    /\ WF_vars(GenerateReply(FewGenReplies))
    /\ WF_vars(VerifyApiReply(FewVerifyReplies))
    /\ WF_vars(VerifyPageQr)

(***************************************************************************)
(* SpecAuth: the gated applications, one request at a time, with clients   *)
(* that log in (two sessions at most), log out and present any cookie, and *)
(* a clock that reaches the end of a session's 24 hours.                   *)
(***************************************************************************)
InitAuth == Init /\ variant \in Gated

\* one good range and a reversed one; a proof and a transport failure
AuthQueries == {Query(Str(<<"1">>), Str(<<"2">>)), Query(Str(<<"2">>), Str(<<"1">>))}

AuthGenReplies == {GoodReply(1, "sigA"), Threw}

NextAuth ==
    \/ Generate(AuthQueries, Cookies, 1)
    \/ GenerateReply(AuthGenReplies)
    \/ VerifyPage(Cookies, 1)
    \/ VerifyPageQr
    \/ ResultPage(Cookies)
    \/ Login(Sids, GoodForms, {FALSE}, 1)
    \/ Logout(Cookies)
    \/ Tick(SessionClockValues)

SpecAuth == InitAuth /\ [][NextAuth]_vars

(***************************************************************************)
(* SpecLogin: the gated applications under every configured digest, with   *)
(* clients that post any form to /login, with and without the limiter's    *)
(* consent, log out and ask for a page.  A timer that was started fires:   *)
(* the event loop runs the callback of every setTimeout.                   *)
(***************************************************************************)
Forms == {NoForm} \cup {Form(p) : p \in Passphrases}

NextLogin ==
    \/ Login(Sids, Forms, BOOLEAN, MaxInflight)
    \/ LoginDelay(Passphrases)
    \/ Logout(Cookies)
    \/ ResultPage(Cookies)
    \/ Tick(SessionClockValues)

SpecLogin ==
    /\ InitAuth
    /\ [][NextLogin]_vars
    /\ \A p \in Passphrases : WF_vars(LoginDelay({p}))

(***************************************************************************)
(* Properties.  A response is read in the state its step leads to; the     *)
(* requests whose provider call is out are the suspended ones.             *)
(***************************************************************************)
\* the step has received a request and answered it at once (no await)
AnsweredAtOnce == last'.kind # "none" /\ inflight' = inflight

\* the step has suspended a new request of reference id (a lookup that went on)
NewlySuspended(id) ==
    \E rec \in BagToSet(inflight') :
        rec.id = id /\ CopiesIn(rec, inflight') > CopiesIn(rec, inflight)

\* the step has issued a provider call
CallIssued ==
    \E rec \in BagToSet(inflight') :
        /\ rec.pc \in {"gen_await", "verify_await"}
        /\ CopiesIn(rec, inflight') > CopiesIn(rec, inflight)

\* a query string that is an integer literal: an optional sign, then digits only
IntegerLiteral(q) ==
    /\ q.present
    /\ LET d == IF q.s # <<>> /\ Head(q.s) \in {"-", "+"} THEN Tail(q.s) ELSE q.s
       IN  d # <<>> /\ AllDigits(d)

Reversed(rawMin, rawMax) == NumberLess(ToNumber(rawMax), ToNumber(rawMin))

Expired(id) == id \in DOMAIN signedStore /\ now - signedStore[id].storedAt > SIGNED_TTL_MS

\* C1: a success response of generate carries a value v with min <= v <= max,
\* whatever integer the accepted provider reply holds.
C1_ValueInRange ==
    last.kind = "generate" /\ last.status = 200
        => last.min <= last.value /\ last.value <= last.max

\* C2: a generate request with max < min ends in 400; it issues no provider
\* call and leaves the proof store as it was.
C2_ReversedRangeRejected ==
    [][/\ \A rec \in BagToSet(inflight') :
              rec.pc = "gen_await" => ~Reversed(rec.rawMin, rec.rawMax)
       /\ last'.kind = "generate" /\ Reversed(last'.rawMin, last'.rawMax)
              => /\ last'.status = 400
                 /\ last'.calls = 0
                 /\ ~CallIssued
                 /\ signedStore' = signedStore]_vars

C2_Witness ==
    /\ last.kind = "generate" /\ last.status = 400
    /\ Reversed(last.rawMin, last.rawMax)
    /\ DOMAIN signedStore # {}

\* C3: a generate request whose min or max is no integer literal (non-numeric,
\* fractional, missing, empty) ends in 400 and issues no provider call.
C3_NonIntegerRejected ==
    /\ \A rec \in Awaiting("gen_await") :
           IntegerLiteral(rec.rawMin) /\ IntegerLiteral(rec.rawMax)
    /\ last.kind = "generate" /\ ~(IntegerLiteral(last.rawMin) /\ IntegerLiteral(last.rawMax))
           => last.status = 400 /\ last.calls = 0

C5_ExpiredIsNotFound ==
    [][\A id \in Ids :
          Expired(id) =>
              /\ ~NewlySuspended(id)
              /\ AnsweredAtOnce /\ last'.kind \in {"verify", "verify_page"} /\ last'.id = id
                     => last'.status = 404 /\ last'.calls = 0]_vars

\* a verify of a reference is answered 404 while an earlier verify of the same
\* reference, which had found it live, still awaits the provider
C5_Witness ==
    /\ last.kind = "verify" /\ last.status = 404 /\ last.calls = 0
    /\ last.id \in DOMAIN issued
    /\ \E rec \in Awaiting("verify_await") : rec.id = last.id

\* C6: a verify request or a result-page request on a reference no generate
\* call has issued ends in 404, issues no provider call and leaves the proof
\* store as it was.
C6_UnknownIsNotFound ==
    [][\A id \in AllRefs \ DOMAIN issued :
          /\ ~NewlySuspended(id)
          /\ last'.kind \in {"verify", "verify_page", "result_page"} /\ last'.id = id
                 => /\ last'.status = 404
                    /\ last'.calls = 0
                    /\ ~CallIssued
                    /\ signedStore' = signedStore]_vars

C6_Witness ==
    /\ last.kind \in {"verify", "result_page"} /\ last.status = 404
    /\ last.id \notin DOMAIN issued
    /\ DOMAIN signedStore # {}

\* C7: in the signed variants, a generate request whose provider reply lacks a
\* string signature, the random block or an integer first value ends in 502 and
\* adds no entry to the proof store.
C7_IncompleteReplyFails ==
    [][/\ last'.kind = "generate" /\ last'.calls = 1 /\ variant \in Signed
       /\ \/ last'.reply.j.result.signature.t # "string"
          \/ ~last'.reply.j.result.random.present
          \/ last'.reply.j.result.random.data = <<>>
          \/ last'.reply.j.result.random.data[1].t # "int"
       => last'.status = 502 /\ signedStore' = signedStore]_vars

\* the reply is a result object with an integer and no signature
C7_Witness ==
    /\ last.kind = "generate" /\ last.status = 502 /\ variant \in Signed
    /\ last.reply.ok /\ last.reply.j.present /\ ~last.reply.j.error
    /\ FirstIsInteger(last.reply.j.result.random)
    /\ last.reply.j.result.signature.t = "absent"
    /\ DOMAIN signedStore # {}

\* C8: a verify request whose provider call failed, returned an error object
\* or returned no boolean authenticity ends in 502, never in a success.
C8_MalformedVerifyFails ==
    /\ last.kind = "verify" /\ last.calls = 1
    /\ \/ last.reply.threw
       \/ ~last.reply.j.present
       \/ last.reply.j.error
       \/ last.reply.j.result.authenticity \notin {"true", "false"}
    => last.status = 502

C10_VerifyNotCached ==
    [][/\ last'.kind = "verify" /\ last'.status = 200
              => /\ last'.calls = 1
                 /\ last'.reply.j.result.authenticity \in {"true", "false"}
                        => (last'.authenticity <=> last'.reply.j.result.authenticity = "true")
       /\ last'.kind = "verify" /\ AnsweredAtOnce => last'.status = 404
       /\ last'.kind = "verify" /\ last'.calls = 1 => signedStore' = signedStore
       /\ \A id \in DOMAIN signedStore' :
              DOMAIN signedStore'[id] = {"random", "signature", "storedAt"}]_vars

\* a verify is answered "not authentic" while a second verify of the same
\* reference has its own call out
C10_Witness ==
    /\ last.kind = "verify" /\ last.status = 200 /\ ~last.authenticity
    /\ \E rec \in Awaiting("verify_await") : rec.id = last.id

Lookups == {"verify", "verify_page", "result_page"}

\* the step has received a lookup request of reference id and answered it at once
LookupAnswered(id) == AnsweredAtOnce /\ last'.kind \in Lookups /\ last'.id = id

\* C11: an entry of the proof store is never changed: from its insert to its
\* eviction it holds the random block, the signature and the storedAt it was
\* inserted with, whatever generate, verify or result-page request runs.
C11_EntriesImmutable ==
    [][/\ \A id \in DOMAIN signedStore \cap DOMAIN signedStore' :
              signedStore'[id] = signedStore[id]
       /\ \A id \in DOMAIN signedStore' :
              /\ id \in DOMAIN issued'
              /\ signedStore'[id].random = issued'[id].random
              /\ signedStore'[id].signature = issued'[id].signature
              /\ id \notin DOMAIN signedStore => signedStore'[id].storedAt = now]_vars

\* an entry has outlived a later insert and a later successful lookup
C11_Witness ==
    /\ last.kind \in Lookups /\ last.status = 200
    /\ \E a \in DOMAIN signedStore, b \in DOMAIN signedStore :
           signedStore[a].storedAt < signedStore[b].storedAt /\ last.id = a

\* C12: in the variants with a proof store, the store gains exactly one entry
\* in the step that answers a generate request with success (its reply has
\* passed the payload test), under the reference of the response; no other
\* step (a 400, a 502, a verify, a result page) adds an entry.
C12_OneInsertPerSuccess ==
    [][LET added == DOMAIN signedStore' \ DOMAIN signedStore
       IN  /\ last'.kind = "generate" /\ last'.status = 200 /\ variant \in Signed
                  => /\ added = {last'.storeId}
                     /\ last'.calls = 1
                     /\ SignedPayloadOk(last'.reply)
           /\ ~(last'.kind = "generate" /\ last'.status = 200) => added = {}]_vars

\* a success has stored its proof while a second generate request awaits the provider
C12_Witness ==
    /\ last.kind = "generate" /\ last.status = 200
    /\ last.storeId \in DOMAIN signedStore
    /\ Awaiting("gen_await") # {}

\* C13: an entry leaves the store only in a lookup of its own reference made
\* when now - storedAt > TTL, and such a lookup does remove it; a lookup or an
\* insert of another reference, or a lookup of a live entry, removes nothing.
C13_EvictionOnlyByOwnExpiredLookup ==
    [][\A id \in DOMAIN signedStore :
          /\ id \notin DOMAIN signedStore'
                 => Expired(id) /\ LookupAnswered(id) /\ last'.status = 404
          /\ Expired(id) /\ LookupAnswered(id) => id \notin DOMAIN signedStore'
          /\ ~Expired(id) => id \in DOMAIN signedStore']_vars

\* an expired entry has been removed by a lookup of its own reference while
\* another expired entry, not looked up, is still in the map
C13_Witness ==
    \E a \in Ids, b \in Ids :
        /\ a \in DOMAIN issued /\ a \notin DOMAIN signedStore
        /\ last.kind \in Lookups /\ last.id = a /\ last.status = 404
        /\ Expired(b)

\* C15: with requests interleaved at their awaits, an insert leaves every other
\* entry as it was, a step touches one request only, and a lookup either finds
\* the complete record (store unchanged) or answers not-found with the entry
\* gone from the store and the other entries untouched.
C15_InterleavingsConsistent ==
    [][/\ \A id \in DOMAIN signedStore' \ DOMAIN signedStore :
              \A o \in DOMAIN signedStore :
                  o \in DOMAIN signedStore' /\ signedStore'[o] = signedStore[o]
       /\ BagCardinality(inflight') - BagCardinality(inflight) \in {-1, 0, 1}
       /\ \A id \in AllRefs :
              /\ NewlySuspended(id)
                     => /\ id \in DOMAIN signedStore /\ ~Expired(id)
                        /\ signedStore' = signedStore
                        /\ \E rec \in BagToSet(inflight') :
                               /\ rec.id = id
                               /\ rec.random = signedStore[id].random
                               /\ rec.signature = signedStore[id].signature
                               /\ rec.random.present /\ rec.signature.t = "string"
              /\ LookupAnswered(id)
                     => \/ /\ last'.status = 200
                           /\ id \in DOMAIN signedStore /\ ~Expired(id)
                           /\ signedStore' = signedStore
                        \/ /\ last'.status = 404
                           /\ id \notin DOMAIN signedStore'
                           /\ \A o \in DOMAIN signedStore \ {id} :
                                  o \in DOMAIN signedStore' /\ signedStore'[o] = signedStore[o]]_vars

\* a lookup has found its entry expired while an earlier request of the same
\* reference, which had read the record, is still suspended and another entry
\* is in the store
C15_Witness ==
    /\ last.kind \in {"verify", "verify_page"} /\ last.status = 404
    /\ last.id \in DOMAIN issued /\ last.id \notin DOMAIN signedStore
    /\ \E rec \in Awaiting("verify_await") \cup Awaiting("qr_await") : rec.id = last.id
    /\ DOMAIN signedStore # {}

\* the provider call of the request has failed: rejected, a non-OK status, no
\* JSON body or an error object
CallFailed(reply) == reply.threw \/ ~reply.ok \/ ~reply.j.present \/ reply.j.error

\* C17: a request issues one provider call at most: a suspended generate or
\* verify request has issued exactly one, a response reports one at most, and a
\* request whose call failed is answered 502, with no second call.
C17_SingleAttempt ==
    /\ \A rec \in BagToSet(inflight) :
           rec.calls = (IF rec.pc = "qr_await" THEN 0 ELSE 1)
    /\ last.calls <= 1
    /\ last.kind \in {"generate", "verify"} /\ last.calls = 1 /\ CallFailed(last.reply)
           => last.status = 502

\* a rejected call has been answered 502 and nothing is left in flight
C17_Witness ==
    /\ last.kind \in {"generate", "verify"} /\ last.calls = 1
    /\ last.reply.threw /\ last.status = 502
    /\ inflight = EmptyBag

\* a request of the kind has its provider call out, answered or not
CallOut(kind) ==
    \E rec \in BagToSet(inflight) :
        rec.pc = (IF kind = "generate" THEN "gen_await" ELSE "verify_await")
            \/ rec.pc = (IF kind = "generate" THEN "gen_hung" ELSE "verify_hung")

\* C16: a generate or verify request whose provider call is out is eventually
\* answered (200, 502), also when the provider never answers the call.
C16_EveryRequestAnswered ==
    \A kind \in {"generate", "verify"} :
        CallOut(kind) ~> (last.kind = kind /\ last.calls = 1)

\* the cookie names a session that is in the map and at most 24 hours old
SessionLive(c) == c \in DOMAIN sessions /\ ~(now - sessions[c] > SESSION_TTL_MS)

\* the step has received a request and suspended it at an await
RequestSuspended == BagCardinality(inflight') > BagCardinality(inflight)

HandlerKinds == {"generate", "verify_page", "result_page"}

\* C18: behind the gate, a generate, verify or result handler runs only for a
\* request whose rng_sid names a session in the map that is at most 24 hours
\* old; any other request to these paths is redirected to /login, issues no
\* provider call and leaves the proof store as it was.
C18_GateBeforeHandlers ==
    [][(variant \in Gated) =>
          /\ (RequestSuspended \/ (AnsweredAtOnce /\ last'.kind \in HandlerKinds))
                 => last'.cookie # NoCookie /\ SessionLive(last'.cookie)
          /\ AnsweredAtOnce /\ last'.kind = "redirect"
                 => /\ ~SessionLive(last'.cookie)
                    /\ last'.status = 302
                    /\ ~CallIssued
                    /\ signedStore' = signedStore
          /\ signedStore' # signedStore /\ AnsweredAtOnce => SessionLive(last'.cookie)]_vars

\* a request that presents the sid of a session that has run out is redirected,
\* with a proof in the store
C18_Witness ==
    /\ last.kind = "redirect" /\ last.cookie \in sidsIssued
    /\ now > SESSION_TTL_MS
    /\ DOMAIN signedStore # {}

\* the constraint a query fails: "number" (a parameter is no number), "integer"
\* (both are numbers, one is no integer), "order" (both are integers, max < min)
Constraint(q) ==
    LET min == ToNumber(q.min)
        max == ToNumber(q.max)
    IN  IF ~NumberIsFinite(min) \/ ~NumberIsFinite(max) THEN "number"
        ELSE IF ~NumberIsInteger(min) \/ ~NumberIsInteger(max) THEN "integer"
        ELSE IF NumberLess(max, min) THEN "order"
        ELSE "none"

\* C20: the error text of a 400 response of generate tells which constraint
\* failed: no query that fails another constraint gets the same text.
C20_DistinctDescriptions ==
    last.kind = "generate" /\ last.status = 400
        => \A q \in Queries :
               Constraint(q) \notin {"none", Constraint(Query(last.rawMin, last.rawMax))}
                   => Validate(variant, ToNumber(q.min), ToNumber(q.max)) # last.error

\* C21: the outcomes of a generate request exclude each other and come in the
\* order validate, call, persist, respond: a 400 is sent exactly when a
\* constraint on min and max fails, at once and with no call; a 502 only after
\* validation passed and the call failed or its payload was incomplete; the
\* insert only in the step that accepts the reply and answers 200.
C21_OutcomesOrdered ==
    [][/\ last'.kind = "generate" =>
              LET c == Constraint(Query(last'.rawMin, last'.rawMax))
              IN  /\ last'.status \in {200, 400, 502}
                  /\ last'.status = 400 <=> c # "none"
                  /\ last'.status = 400 => last'.calls = 0 /\ AnsweredAtOnce /\ ~CallIssued
                  /\ last'.status = 502
                         => /\ last'.calls = 1
                            /\ CallFailed(last'.reply) \/ ~SignedPayloadOk(last'.reply)
                  /\ last'.status = 200
                         => /\ last'.calls = 1
                            /\ ~CallFailed(last'.reply)
                            /\ FirstIsInteger(ReplyRandom(last'.reply))
                            /\ variant \in Signed => SignedPayloadOk(last'.reply)
       /\ \A rec \in BagToSet(inflight') :
              rec.pc = "gen_await" => Constraint(Query(rec.rawMin, rec.rawMax)) = "none"
       /\ DOMAIN signedStore' # DOMAIN signedStore /\ ~AnsweredAtOnce
              => last'.kind = "generate" /\ last'.status = 200
                     /\ last'.storeId \in DOMAIN signedStore']_vars

\* the provider has answered a valid request with an error object: a 502, and
\* the store holds the proof of an earlier success only
C21_Witness ==
    /\ last.kind = "generate" /\ last.status = 502 /\ last.calls = 1
    /\ last.reply.ok /\ last.reply.j.error
    /\ Constraint(Query(last.rawMin, last.rawMax)) = "none"
    /\ DOMAIN signedStore # {}

\* C22: the provider call of a generate request carries n = 1, replacement =
\* true, base = 10 and the min and max of its own request, as validated.
C22_CallParameters ==
    \A rec \in BagToSet(inflight) :
        rec.pc \in {"gen_await", "gen_hung"}
            => /\ rec.calls = 1
               /\ rec.params.method
                      = (IF variant = "plain" THEN "generateIntegers" ELSE "generateSignedIntegers")
               /\ rec.params.n = 1
               /\ rec.params.replacement
               /\ rec.params.base = 10
               /\ Constraint(Query(rec.rawMin, rec.rawMax)) = "none"
               /\ rec.params.min = IntOf(ToNumber(rec.rawMin))
               /\ rec.params.max = IntOf(ToNumber(rec.rawMax))

\* two generate calls with different ranges are out at the same time
C22_Witness ==
    \E a \in Awaiting("gen_await"), b \in Awaiting("gen_await") :
        a.params.max # b.params.max /\ a.params.min < a.params.max

\* the reference has been issued and its proof is at most TTL old
WithinTtl(id) == id \in DOMAIN issued /\ ~(now - issued[id].storedAt > SIGNED_TTL_MS)

\* the lookup of this step has returned the proof stored for the reference
LookupReturnsProof(id) ==
    /\ LookupAnswered(id)
           => /\ last'.status = 200
              /\ last'.kind = "verify_page"
                     => /\ last'.random = issued[id].random
                        /\ last'.signature = issued[id].signature
              /\ last'.kind = "result_page" => last'.value = issued[id].random.data[1].v
    /\ NewlySuspended(id)
           => \E rec \in BagToSet(inflight') :
                  /\ rec.id = id
                  /\ rec.random = issued[id].random
                  /\ rec.signature = issued[id].signature

\* C23 as stated: every lookup of an issued reference made while
\* now - storedAt <= TTL returns the stored random block and signature.
C23_NoLiveProofLost ==
    [][\A id \in Ids : WithinTtl(id) => LookupReturnsProof(id)]_vars

\* C23, amended: every lookup of an issued reference made while
\* now - storedAt <= TTL (exactly TTL included) returns the stored random block
\* and signature, whatever happened to other references, unless an earlier
\* lookup of the same reference was made while now - storedAt > TTL: that
\* lookup, and no other step, takes the entry out of the store for good.
C23_NoLiveProofLostUntilEvicted ==
    [][\A id \in Ids :
          /\ WithinTtl(id) /\ id \in DOMAIN signedStore => LookupReturnsProof(id)
          /\ id \in DOMAIN signedStore
                 => /\ id \in DOMAIN issued
                    /\ signedStore[id].storedAt = issued[id].storedAt
          /\ id \in DOMAIN signedStore /\ id \notin DOMAIN signedStore'
                 => ~WithinTtl(id) /\ LookupAnswered(id)]_vars

\* a lookup made exactly TTL after the insert has found its proof, after the
\* other reference had been evicted
C23_Witness ==
    /\ last.kind \in Lookups /\ last.status = 200
    /\ last.id \in DOMAIN issued
    /\ now - issued[last.id].storedAt = SIGNED_TTL_MS
    /\ \E o \in DOMAIN issued : o \notin DOMAIN signedStore

\* C24: a well-formed verifySignature reply with the boolean flag b is answered
\* 200 with authenticity = b; a reply whose flag is false or absent is never
\* answered with authenticity true.
C24_AuthenticityReported ==
    last.kind = "verify" /\ last.calls = 1
        => LET flag == last.reply.j.result.authenticity
           IN  /\ ~CallFailed(last.reply) /\ flag \in {"true", "false"}
                      => last.status = 200 /\ (last.authenticity <=> flag = "true")
               /\ flag \in {"false", "absent"} => ~last.authenticity
               /\ last.status # 200 => ~last.authenticity

\* the provider has reported the signature as not authentic
C24_Witness ==
    /\ last.kind = "verify" /\ last.status = 200 /\ last.calls = 1
    /\ last.reply.j.result.authenticity = "false" /\ ~last.authenticity
    /\ last.id \in DOMAIN signedStore

\* C25: in part_000 and server.js GET /verify/:id issues no provider call: it
\* answers from the lookup alone, 404 when the lookup finds nothing and the
\* page with the stored random block and signature when it finds the entry.
C25_VerifyPageFromStoreOnly ==
    [][(variant \in Gated) =>
          /\ \A rec \in BagToSet(inflight') : rec.pc \notin {"verify_await", "verify_hung"}
          /\ last'.kind = "verify_page"
                 => /\ last'.calls = 0
                    /\ ~CallIssued
                    /\ last'.status \in {200, 404}
                    /\ last'.status = 200
                           => /\ last'.id \in DOMAIN issued
                              /\ last'.random = issued[last'.id].random
                              /\ last'.signature = issued[last'.id].signature
          /\ \A id \in AllRefs :
                 /\ LookupAnswered(id) /\ last'.kind = "verify_page"
                        => (last'.status = 200 <=> id \in DOMAIN signedStore /\ ~Expired(id))
                 /\ NewlySuspended(id) => id \in DOMAIN signedStore /\ ~Expired(id)]_vars

\* the proof page of a live reference has been sent
C25_Witness ==
    /\ variant \in Gated
    /\ last.kind = "verify_page" /\ last.status = 200 /\ last.calls = 0
    /\ last.id \in DOMAIN signedStore
    /\ last.signature.t = "string"

\* the step has called isAuthed: a request to a gated path
IsAuthedCalled ==
    \/ RequestSuspended
    \/ AnsweredAtOnce /\ last'.kind \in HandlerKinds \cup {"redirect"}

\* C26: a session is accepted only while now - createdAt <= 24 hours: a
\* request with an older session is redirected, and after a step that has
\* called isAuthed no session of the map is older than 24 hours.
C26_SessionTtl ==
    [][(variant \in Gated) =>
          /\ \A s \in DOMAIN sessions :
                 /\ now - sessions[s] > SESSION_TTL_MS
                 /\ AnsweredAtOnce /\ last'.cookie = s
                 /\ last'.kind \in HandlerKinds \cup {"redirect"}
                 => last'.kind = "redirect"
          /\ RequestSuspended => SessionLive(last'.cookie)
          /\ IsAuthedCalled
                 => \A s \in DOMAIN sessions' : ~(now - sessions'[s] > SESSION_TTL_MS)]_vars

\* a request with a session that has run out has been redirected, a second
\* session of the same age has left the map with it and a proof is in the store
C26_Witness ==
    /\ last.kind = "redirect" /\ last.cookie \in sidsIssued
    /\ now = SESSION_TTL_MS + 1
    /\ Cardinality(sidsIssued) = 2 /\ DOMAIN sessions = {}
    /\ DOMAIN signedStore # {}

\* C27: not-found is final: after a lookup has answered 404 the reference is
\* not in the store, and a reference that is out of the store (never issued, or
\* issued and evicted) stays out and is answered 404 by every later lookup,
\* also when the clock has moved back.
C27_NotFoundPermanent ==
    [][/\ last'.kind \in Lookups /\ last'.status = 404
              => last'.id \notin DOMAIN signedStore'
       /\ \A id \in AllRefs :
              (id = NeverIssued \/ id \in DOMAIN issued) /\ id \notin DOMAIN signedStore
                  => /\ id \notin DOMAIN signedStore'
                     /\ ~NewlySuspended(id)
                     /\ LookupAnswered(id) => last'.status = 404]_vars

\* an evicted reference is answered 404 after the clock has moved back to a
\* time at which its proof would be within the TTL
C27_Witness ==
    /\ last.kind \in Lookups /\ last.status = 404
    /\ last.id \in DOMAIN issued
    /\ ~(now - issued[last.id].storedAt > SIGNED_TTL_MS)

\* C28: a lookup that finds a live entry leaves the whole store as it was: the
\* entry keeps the storedAt of its insert, from which expiry is measured.
C28_LookupKeepsStoredAt ==
    [][\A id \in Ids :
          id \in DOMAIN signedStore
              => /\ signedStore[id].storedAt = issued[id].storedAt
                 /\ Expired(id) <=> now - issued[id].storedAt > SIGNED_TTL_MS
                 /\ ~Expired(id) /\ (LookupAnswered(id) \/ NewlySuspended(id))
                        => signedStore' = signedStore]_vars

\* a lookup has found an entry some time after its insert
C28_Witness ==
    /\ last.kind \in Lookups /\ last.status = 200
    /\ last.id \in DOMAIN signedStore
    /\ now > signedStore[last.id].storedAt

\* C29: a verify request decides not-found once, at its lookup: a request that
\* has found its entry and called the provider ends in 200 or 502, never in
\* 404, also when the entry has left the store while the call was out.
C29_NotFoundDecidedAtLookup ==
    [][/\ last'.kind = "verify" /\ last'.calls = 1
              => /\ last'.status \in {200, 502}
                 /\ last'.random = issued[last'.id].random
                 /\ last'.signature = issued[last'.id].signature
       /\ last'.kind = "verify" /\ last'.status = 404 => last'.calls = 0 /\ AnsweredAtOnce
       /\ \A rec \in Awaiting("verify_await") : rec \in BagToSet(inflight') \/ last'.kind = "verify"
       ]_vars

\* a verify is answered with the provider's flag after another request has
\* found the entry expired and deleted it
C29_Witness ==
    /\ last.kind = "verify" /\ last.status = 200 /\ last.calls = 1
    /\ last.id \in DOMAIN issued /\ last.id \notin DOMAIN signedStore

\* C30: a logout with session id s takes s out of the sessions map; a sid that
\* has left the map never comes back, and a request that carries it is
\* redirected like any unauthenticated request.
C30_LogoutIsFinal ==
    [][(variant \in Gated) =>
          /\ last'.kind = "logout" => last'.cookie \notin DOMAIN sessions'
          /\ \A s \in sidsIssued :
                 s \notin DOMAIN sessions
                     => /\ s \notin DOMAIN sessions'
                        /\ last'.cookie = s /\ last'.kind # "logout"
                               => /\ AnsweredAtOnce /\ last'.kind = "redirect"
                                  /\ signedStore' = signedStore
          /\ \A s \in DOMAIN sessions' \ DOMAIN sessions :
                 s \notin sidsIssued /\ last'.kind = "login" /\ last'.sid = s]_vars

\* a request with a logged-out sid is redirected before the session has aged,
\* after a second login
C30_Witness ==
    /\ last.kind = "redirect" /\ last.cookie \in sidsIssued
    /\ last.cookie \notin DOMAIN sessions
    /\ now = 0
    /\ DOMAIN sessions # {}

\* the configured digest is 64 hex digits
ConfiguredDigest ==
    /\ Len(PASSPHRASE_SHA256) = 64
    /\ \A i \in 1..64 :
           PASSPHRASE_SHA256[i] \in {"0", "1", "2", "3", "4", "5", "6", "7", "8", "9",
                                     "a", "b", "c", "d", "e", "f"}

\* the digest of the passphrase is the configured digest
DigestEqual(passphrase) == ConfiguredDigest /\ Sha256Hex(passphrase) = PASSPHRASE_SHA256

\* the step has started the timer of a login with this passphrase
LoginDelayed(passphrase) ==
    \E rec \in BagToSet(inflight') :
        /\ rec.pc = "login_delay" /\ rec.passphrase = passphrase
        /\ CopiesIn(rec, inflight') > CopiesIn(rec, inflight)

\* what the login handler makes of a post
LoginAnswer ==
    IF ~ConfiguredDigest
    THEN last'.status = 500 /\ sessions' = sessions /\ AnsweredAtOnce
    ELSE IF DigestEqual(last'.passphrase)
    THEN /\ last'.status = 302 /\ last'.error = "" /\ AnsweredAtOnce
         /\ last'.sid \notin DOMAIN sessions
         /\ DOMAIN sessions' = DOMAIN sessions \cup {last'.sid}
    ELSE /\ last'.status = 302 /\ last'.error = "Wrong passphrase"
         /\ sessions' = sessions
         /\ BagCardinality(inflight') < BagCardinality(inflight)

\* C31 as stated: every POST /login ends in one of three ways: a session for
\* the configured passphrase, a redirect with an error and no session for a
\* wrong one, HTTP 500 and no session under a missing or malformed digest.
C31_LoginOutcomes ==
    [][(variant \in Gated) => (last'.kind = "login" => LoginAnswer)]_vars

\* C31: a session is added to the map only by a POST /login whose passphrase
\* digest equals the configured 64-hex-digit digest.  Of the posts the login
\* limiter lets through, one with a wrong passphrase adds no session and is in
\* the end redirected to /login with the error, and one under a missing or
\* malformed digest is answered 500 and adds no session; a post the limiter
\* answers with 429 adds no session either.
C31_LoginPastLimiter ==
    /\ [][(variant \in Gated) =>
             /\ \A s \in DOMAIN sessions' \ DOMAIN sessions :
                    /\ last'.kind = "login" /\ last'.status = 302 /\ last'.sid = s
                    /\ DigestEqual(last'.passphrase)
             /\ last'.kind = "login" /\ last'.status # 429 => LoginAnswer
             /\ last'.kind = "login" /\ last'.status = 429 => sessions' = sessions
             /\ \A p \in Passphrases :
                    LoginDelayed(p)
                        => ConfiguredDigest /\ ~DigestEqual(p) /\ sessions' = sessions]_vars
    /\ \A p \in Passphrases :
           (\E rec \in Awaiting("login_delay") : rec.passphrase = p)
               ~> (/\ last.kind = "login" /\ last.status = 302
                   /\ last.error = "Wrong passphrase" /\ last.passphrase = p)

\* the timer of a wrong passphrase has redirected the post while the session
\* of an earlier login with the configured passphrase is in the map
C31_Witness ==
    /\ last.kind = "login" /\ last.error = "Wrong passphrase"
    /\ last.passphrase = "guess"
    /\ Cardinality(sidsIssued) = 1 /\ DOMAIN sessions = sidsIssued

====
